---- MODULE Spec2Model ----
(***************************************************************************)
(* The two retrieval-augmented-generation scripts of the repository:       *)
(*   src/src/pgvector.ts  (relational variant, Postgres + pgvector)        *)
(*   src/src/chromadb.ts  (collection variant, ChromaDB)                   *)
(*                                                                         *)
(* A script is a set of async chains.  A chain is suspended at an await;   *)
(* when the awaited call returns, the continuation runs synchronously up   *)
(* to and including the issue of the next awaited call.  One action is one *)
(* such continuation; a chain's pc names the call it is suspended at.      *)
(* pgvector.ts has one chain (top-level await); chromadb.ts starts two     *)
(* (prepareDataSet() and ask() are called without await).                  *)
(*                                                                         *)
(* Storage outlives the process, so a model run is a series of process     *)
(* runs against the same storage.                                          *)
(***************************************************************************)
EXTENDS Integers, Sequences, FiniteSets

\* ---------------------------------------------------------------- bounds
\* Number of process runs against the same storage.
MaxRuns == 2
\* Embeddings are points 0..MaxCoord on a line.
MaxCoord == 2

\* ------------------------------------------------------------- constants
\* The three example passages (texts abbreviated to their subject).
studentInfo == "Alexandra Thompson, a 19-year-old ..."
clubInfo == "The university chess club ..."
universityInfo == "The University of Washington ..."

Corpus == <<studentInfo, clubInfo, universityInfo>>

\* ids passed to collection.add
CollectionIds == <<"id1", "id2", "id3">>

\* Lines a user may type at the prompt (one of them padded with blanks).
Questions == {"When does the chess club meet?", "  When does the chess club meet?  "}

\* JavaScript null / undefined.
Null == "<null>"

\* The model's answer text (res.choices[0].message.content).
Answer == "<answer>"

Vecs == 0..MaxCoord

\* The embedding a chain holds before any embedding call returned.
NoEmbedding == [input |-> Null, vec |-> 0]

VARIABLES
    variant,      \* "pg" or "chroma": which script runs
    run,          \* number of the current process run
    store,        \* the storage backend: [exists, docs]
    conn,         \* pg client: "connecting", "open", "ended"
    pcMain,       \* pgvector.ts top-level chain
    pcPrep,       \* chromadb.ts prepareDataSet() chain
    pcAsk,        \* chromadb.ts ask() chain
    idx,          \* which embedAndInsert call of the three is running
    embedding,    \* local `embedding` of embedAndInsert / queryRelevantDocument
    question,     \* local `question` of askQuestion
    context,      \* local `context` of askQuestion (pgvector.ts)
    relevantInfo, \* local `relevantInfo` of askQuestion (chromadb.ts)
    out,          \* lines printed with console.log
    chatLog,      \* chat-completion requests sent in this run
    embedLog,     \* inputs of the embedding requests sent in this run
    lookups,      \* nearest-neighbour lookups answered in this run
    stdinLine,    \* the line the user typed
    reads,        \* number of lines read from standard input
    calls,        \* number of external calls issued in this run
    opens,        \* number of pg.connect() calls
    closes,       \* number of pg.end() calls
    badQuery,     \* a database query was issued on a connection not open
    rejections,   \* number of external calls that failed in this run
    faults,       \* an external call failed for a reason outside the program
    foreign,      \* another instance reset the table during this run
    crashed       \* the process died of an unhandled rejection

vars == <<variant, run, store, conn, pcMain, pcPrep, pcAsk, idx, embedding,
          question, context, relevantInfo, out, chatLog, embedLog, lookups,
          stdinLine, reads, calls, opens, closes, badQuery, rejections,
          faults, foreign, crashed>>

\* ------------------------------------------------------------ pure parts

\* pgvector's <-> operator (L2 distance), on a line.
Dist(a, b) == IF a >= b THEN a - b ELSE b - a

\* input: text   (getEmbedding) / documents, queryTexts (chromadb.ts)
EmbeddingInput_trimmed(text) ==
    IF text = "  When does the chess club meet?  "
    THEN "When does the chess club meet?" ELSE text

EmbeddingInput(text) == text

\* The embeddings endpoint: the vector it returns for a request.
EmbeddingOf(input, v) == [input |-> input, vec |-> v]

\* The indices of the rows at minimum distance from q.
Closest(docs, q) ==
    {i \in DOMAIN docs :
        \A j \in DOMAIN docs :
            Dist(docs[i].embedding.vec, q) <= Dist(docs[j].embedding.vec, q)}

Farthest(docs, q) ==
    {i \in DOMAIN docs :
        \A j \in DOMAIN docs :
            Dist(docs[i].embedding.vec, q) >= Dist(docs[j].embedding.vec, q)}

\* SELECT content FROM documents ORDER BY embedding <-> $1 LIMIT 1:
\* the result sets the database may return (ties in any order).
SelectNearest_desc(docs, q) ==
    IF docs = <<>> THEN {<<>>} ELSE {<<docs[i]>> : i \in Farthest(docs, q)}

SelectNearest(docs, q) ==
    IF docs = <<>> THEN {<<>>} ELSE {<<docs[i]>> : i \in Closest(docs, q)}

\* collection.query({ queryTexts: question, nResults: 1 }): result.documents[0]
CollectionQuery(docs, q) ==
    IF docs = <<>> THEN {<<>>} ELSE {<<docs[i]>> : i \in Closest(docs, q)}

\* rows[0]?.content || null      and      result.documents[0][0]
FirstContent(rows) ==
    IF rows = <<>> THEN Null
    ELSE IF rows[1].content = "" THEN Null ELSE rows[1].content

\* if (!context) return ...      and      if (relevantInfo) ... else ...
ContextFound_always(c) == TRUE

ContextFound(c) == c # Null /\ c # ""

\* The chat-completion requests.
PgChatRequest_sampling(ctx, q) ==
    [model |-> "gpt-3.5-turbo", temperature |-> 1,
     messages |-> <<[role |-> "assistant",
                     content |-> <<"Use this information: ", ctx>>],
                    [role |-> "user", content |-> q]>>]

PgChatRequest(ctx, q) ==
    [model |-> "gpt-3.5-turbo", temperature |-> 0,
     messages |-> <<[role |-> "assistant",
                     content |-> <<"Use this information: ", ctx>>],
                    [role |-> "user", content |-> q]>>]

ChromaChatRequest(ctx, q) ==
    [model |-> "gpt-3.5-turbo", temperature |-> 0,
     messages |-> <<[role |-> "assistant",
                     content |-> <<"Answer the next question using this information: ", ctx>>],
                    [role |-> "user", content |-> q]>>]

\* The fixed messages of the two scripts.
PgNotFound == <<"No relevant document found.">>
ChromaNotFound_silent == <<>>

ChromaNotFound == <<"No relevant information found.">>

\* return console.log(...) in askQuestion: the top level goes on to pg.end().
NotFoundReturn_exit == "done"

NotFoundReturn == "end"

\* ------------------------------------------------------------- the state

EmptyStore == [exists |-> FALSE, docs |-> <<>>]

\* The labels at which a chain awaits an external call.
PgExternal == {"connect", "registerTypes", "createExtension", "dropTable",
               "createTable", "embed", "insert", "embedQuestion", "select",
               "chat", "end"}
ChromaExternal == {"createCollection", "getCollection", "add", "query", "chat"}

\* The external calls in flight: (chain, call).
InFlight ==
    (IF pcMain \in PgExternal THEN {<<"main", pcMain>>} ELSE {})
    \cup (IF pcPrep \in ChromaExternal THEN {<<"prep", pcPrep>>} ELSE {})
    \cup (IF pcAsk \in ChromaExternal THEN {<<"ask", pcAsk>>} ELSE {})

\* The process has ended, normally or by a crash.
RunOver ==
    IF variant = "pg" THEN pcMain \in {"done", "rejected"}
    ELSE crashed \/ (pcPrep = "done" /\ pcAsk = "done")

\* Module scope of each script, up to its first await: pgvector.ts has issued
\* pg.connect(); chromadb.ts has issued createCollection (prepareDataSet) and
\* the prompt (ask).
Init ==
    /\ variant \in {"pg", "chroma"}
    /\ run = 1
    /\ store = EmptyStore
    /\ conn = IF variant = "pg" THEN "connecting" ELSE "none"
    /\ pcMain = IF variant = "pg" THEN "connect" ELSE "off"
    /\ pcPrep = IF variant = "pg" THEN "off" ELSE "createCollection"
    /\ pcAsk = IF variant = "pg" THEN "off" ELSE "question"
    /\ idx = 0
    /\ embedding = NoEmbedding
    /\ question = Null
    /\ context = Null
    /\ relevantInfo = Null
    /\ out = <<>>
    /\ chatLog = <<>>
    /\ embedLog = <<>>
    /\ lookups = <<>>
    /\ stdinLine = Null
    /\ reads = 0
    /\ calls = 1
    /\ opens = IF variant = "pg" THEN 1 ELSE 0
    /\ closes = 0
    /\ badQuery = FALSE
    /\ rejections = 0
    /\ faults = FALSE
    /\ foreign = FALSE
    /\ crashed = FALSE

\* The process is started again, against the storage the last run left.
Restart ==
    /\ RunOver
    /\ run < MaxRuns
    /\ run' = run + 1
    /\ conn' = IF variant = "pg" THEN "connecting" ELSE "none"
    /\ pcMain' = IF variant = "pg" THEN "connect" ELSE "off"
    /\ pcPrep' = IF variant = "pg" THEN "off" ELSE "createCollection"
    /\ pcAsk' = IF variant = "pg" THEN "off" ELSE "question"
    /\ idx' = 0
    /\ embedding' = NoEmbedding
    /\ question' = Null
    /\ context' = Null
    /\ relevantInfo' = Null
    /\ out' = <<>>
    /\ chatLog' = <<>>
    /\ embedLog' = <<>>
    /\ lookups' = <<>>
    /\ stdinLine' = Null
    /\ reads' = 0
    /\ calls' = 1
    /\ opens' = IF variant = "pg" THEN 1 ELSE 0
    /\ closes' = 0
    /\ badQuery' = FALSE
    /\ rejections' = 0
    /\ faults' = FALSE
    /\ foreign' = FALSE
    /\ crashed' = FALSE
    /\ UNCHANGED <<variant, store>>

\* ------------------------------------------------------- pgvector.ts

chromaVars == <<pcPrep, pcAsk, relevantInfo>>
askVars == <<question, stdinLine, reads>>
envVars == <<variant, run, foreign>>

\* A query is sent on the client: it is a bad one unless the client is open.
Query(c) == badQuery' = (badQuery \/ c # "open")

\* await pg.connect() returned; pgvector.registerTypes(pg) queries pg_type.
PgConnected ==
    /\ pcMain = "connect"
    /\ conn' = "open"
    /\ Query(conn')
    /\ calls' = calls + 1
    /\ pcMain' = "registerTypes"
    /\ UNCHANGED <<envVars, store, chromaVars, askVars, idx, embedding, context,
                   out, chatLog, embedLog, lookups, opens, closes, rejections,
                   faults, crashed>>

\* registerTypes returned; setupTable() sends CREATE EXTENSION.
PgTypesRegistered ==
    /\ pcMain = "registerTypes"
    /\ Query(conn)
    /\ calls' = calls + 1
    /\ pcMain' = "createExtension"
    /\ UNCHANGED <<envVars, store, conn, chromaVars, askVars, idx, embedding,
                   context, out, chatLog, embedLog, lookups, opens, closes,
                   rejections, faults, crashed>>

\* CREATE EXTENSION returned; DROP TABLE IF EXISTS documents is sent.
SetupTableExtension ==
    /\ pcMain = "createExtension"
    /\ Query(conn)
    /\ calls' = calls + 1
    /\ pcMain' = "dropTable"
    /\ UNCHANGED <<envVars, store, conn, chromaVars, askVars, idx, embedding,
                   context, out, chatLog, embedLog, lookups, opens, closes,
                   rejections, faults, crashed>>

\* DROP TABLE returned; CREATE TABLE IF NOT EXISTS documents is sent.
SetupTableDropped ==
    /\ pcMain = "dropTable"
    /\ store' = EmptyStore
    /\ Query(conn)
    /\ calls' = calls + 1
    /\ pcMain' = "createTable"
    /\ UNCHANGED <<envVars, conn, chromaVars, askVars, idx, embedding, context,
                   out, chatLog, embedLog, lookups, opens, closes, rejections,
                   faults, crashed>>

\* CREATE TABLE returned; embedAndInsert(studentInfo) asks for the embedding.
SetupTableCreated ==
    /\ pcMain = "createTable"
    /\ store' = IF store.exists THEN store ELSE [exists |-> TRUE, docs |-> <<>>]
    /\ idx' = 1
    /\ embedLog' = Append(embedLog, EmbeddingInput(Corpus[1]))
    /\ calls' = calls + 1
    /\ pcMain' = "embed"
    /\ UNCHANGED <<envVars, conn, chromaVars, askVars, embedding, context, out,
                   chatLog, lookups, opens, closes, badQuery, rejections,
                   faults, crashed>>

\* getEmbedding(content) returned; the INSERT is sent.
EmbedAndInsertEmbedded ==
    /\ pcMain = "embed"
    /\ \E v \in Vecs : embedding' = EmbeddingOf(EmbeddingInput(Corpus[idx]), v)
    /\ Query(conn)
    /\ calls' = calls + 1
    /\ pcMain' = "insert"
    /\ UNCHANGED <<envVars, store, conn, chromaVars, askVars, idx, context, out,
                   chatLog, embedLog, lookups, opens, closes, rejections,
                   faults, crashed>>

\* The INSERT returned; the next embedAndInsert starts, or askQuestion prompts.
EmbedAndInsertInserted ==
    /\ pcMain = "insert"
    /\ store.exists
    /\ store' = [store EXCEPT !.docs =
                    Append(@, [id |-> Len(@) + 1, content |-> Corpus[idx],
                               embedding |-> embedding])]
    /\ IF idx < Len(Corpus)
       THEN /\ idx' = idx + 1
            /\ embedLog' = Append(embedLog, EmbeddingInput(Corpus[idx + 1]))
            /\ calls' = calls + 1
            /\ pcMain' = "embed"
       ELSE /\ pcMain' = "question"
            /\ UNCHANGED <<idx, embedLog, calls>>
    /\ UNCHANGED <<envVars, conn, chromaVars, askVars, embedding, context, out,
                   chatLog, lookups, opens, closes, badQuery, rejections,
                   faults, crashed>>

\* The user typed a line; queryRelevantDocument asks for its embedding.
PgQuestionAnswered ==
    /\ pcMain = "question"
    /\ \E line \in Questions :
          /\ stdinLine' = line
          /\ question' = line
          /\ embedLog' = Append(embedLog, EmbeddingInput(line))
    /\ reads' = reads + 1
    /\ calls' = calls + 1
    /\ pcMain' = "embedQuestion"
    /\ UNCHANGED <<envVars, store, conn, chromaVars, idx, embedding, context,
                   out, chatLog, lookups, opens, closes, badQuery, rejections,
                   faults, crashed>>

\* getEmbedding(question) returned; the SELECT is sent.
PgQuestionEmbedded ==
    /\ pcMain = "embedQuestion"
    /\ \E v \in Vecs : embedding' = EmbeddingOf(EmbeddingInput(question), v)
    /\ Query(conn)
    /\ calls' = calls + 1
    /\ pcMain' = "select"
    /\ UNCHANGED <<envVars, store, conn, chromaVars, askVars, idx, context, out,
                   chatLog, embedLog, lookups, opens, closes, rejections,
                   faults, crashed>>

\* The SELECT returned: no context prints the message and returns, after which
\* the top level calls pg.end(); a context sends the chat request.
PgSelected ==
    /\ pcMain = "select"
    /\ store.exists
    /\ \E rows \in SelectNearest(store.docs, embedding.vec) :
          /\ context' = FirstContent(rows)
          /\ lookups' = Append(lookups, [stored |-> store.docs, q |-> embedding,
                                         rows |-> rows, ret |-> context'])
    /\ IF ContextFound(context')
       THEN /\ chatLog' = Append(chatLog, PgChatRequest(context', question))
            /\ calls' = calls + 1
            /\ pcMain' = "chat"
            /\ UNCHANGED <<out, conn, closes>>
       ELSE /\ out' = out \o PgNotFound
            /\ pcMain' = NotFoundReturn
            /\ conn' = IF pcMain' = "end" THEN "ended" ELSE conn
            /\ closes' = IF pcMain' = "end" THEN closes + 1 ELSE closes
            /\ calls' = IF pcMain' = "end" THEN calls + 1 ELSE calls
            /\ UNCHANGED chatLog
    /\ UNCHANGED <<envVars, store, chromaVars, askVars, idx, embedding, embedLog,
                   opens, badQuery, rejections, faults, crashed>>

\* The chat completion returned: the answer is printed, then pg.end() is called.
PgChatReturned ==
    /\ pcMain = "chat"
    /\ out' = Append(out, Answer)
    /\ conn' = "ended"
    /\ closes' = closes + 1
    /\ calls' = calls + 1
    /\ pcMain' = "end"
    /\ UNCHANGED <<envVars, store, chromaVars, askVars, idx, embedding, context,
                   chatLog, embedLog, lookups, opens, badQuery, rejections,
                   faults, crashed>>

\* pg.end() returned: the script is over.
PgEnded ==
    /\ pcMain = "end"
    /\ pcMain' = "done"
    /\ UNCHANGED <<envVars, store, conn, chromaVars, askVars, idx, embedding,
                   context, out, chatLog, embedLog, lookups, calls, opens,
                   closes, badQuery, rejections, faults, crashed>>

\* The awaited call failed: a rejected top-level await ends the process.
PgRejected ==
    /\ pcMain \in PgExternal
    /\ rejections' = rejections + 1
    /\ faults' = TRUE
    /\ crashed' = TRUE
    /\ pcMain' = "rejected"
    /\ UNCHANGED <<envVars, store, conn, chromaVars, askVars, idx, embedding,
                   context, out, chatLog, embedLog, lookups, calls, opens,
                   closes, badQuery>>

\* Another instance of the script, on the same database, runs its setupTable()
\* while this one is running.
ConcurrentSetupTable ==
    /\ variant = "pg"
    /\ ~RunOver
    /\ ~foreign
    /\ foreign' = TRUE
    /\ store' = [exists |-> TRUE, docs |-> <<>>]
    /\ UNCHANGED <<variant, run, conn, pcMain, chromaVars, askVars, idx,
                   embedding, context, out, chatLog, embedLog, lookups, calls,
                   opens, closes, badQuery, rejections, faults, crashed>>

\* ------------------------------------------------------- chromadb.ts

pgVars == <<conn, pcMain, idx, embedding, context, opens, closes, badQuery>>

\* prepareDataSet(); ask();  Neither promise is awaited or caught: a rejection in
\* either chain is an unhandled rejection, which ends the process, the other
\* chain with it.  The pcs and the crashed flag after chain c rejected.
UnhandledRejection_warning(c) ==
    [prep |-> IF c = "prep" THEN "rejected" ELSE pcPrep,
     ask |-> IF c = "ask" THEN "rejected" ELSE pcAsk,
     crashed |-> FALSE]

UnhandledRejection(c) ==
    [prep |-> IF c = "prep" THEN "rejected" ELSE "dead",
     ask |-> IF c = "ask" THEN "rejected" ELSE "dead",
     crashed |-> TRUE]

Reject(c) ==
    /\ rejections' = rejections + 1
    /\ pcPrep' = UnhandledRejection(c).prep
    /\ pcAsk' = UnhandledRejection(c).ask
    /\ crashed' = UnhandledRejection(c).crashed

\* chroma.createCollection returned; populateCollection calls getCollection.
CreateCollectionReturned ==
    /\ pcPrep = "createCollection"
    /\ ~store.exists
    /\ store' = [exists |-> TRUE, docs |-> <<>>]
    /\ calls' = calls + 1
    /\ pcPrep' = "getCollection"
    /\ UNCHANGED <<envVars, pgVars, pcAsk, relevantInfo, askVars, out, chatLog,
                   embedLog, lookups, rejections, faults, crashed>>

\* chroma.createCollection of a collection that exists is refused.
CreateCollectionRejected ==
    /\ pcPrep = "createCollection"
    /\ store.exists
    /\ Reject("prep")
    /\ UNCHANGED <<envVars, store, pgVars, relevantInfo, askVars, out, chatLog,
                   embedLog, lookups, calls, faults>>

\* getCollection returned in populateCollection; collection.add is called, and
\* embeds the three documents.
PopulateGotCollection ==
    /\ pcPrep = "getCollection"
    /\ store.exists
    /\ embedLog' = embedLog \o [i \in DOMAIN Corpus |-> EmbeddingInput(Corpus[i])]
    /\ calls' = calls + 1
    /\ pcPrep' = "add"
    /\ UNCHANGED <<envVars, store, pgVars, pcAsk, relevantInfo, askVars, out,
                   chatLog, lookups, rejections, faults, crashed>>

\* The documents collection.add stores: ids the collection holds are skipped.
Added(docs, vs) ==
    LET held == {docs[i].id : i \in DOMAIN docs}
        new == [i \in DOMAIN Corpus |->
                  [id |-> CollectionIds[i], content |-> Corpus[i],
                   embedding |-> EmbeddingOf(EmbeddingInput(Corpus[i]), vs[i])]]
    IN  docs \o SelectSeq(new, LAMBDA d : d.id \notin held)

\* collection.add returned: prepareDataSet is over.
PopulateAdded ==
    /\ pcPrep = "add"
    /\ store.exists
    /\ \E vs \in [DOMAIN Corpus -> Vecs] :
          store' = [store EXCEPT !.docs = Added(@, vs)]
    /\ pcPrep' = "done"
    /\ UNCHANGED <<envVars, pgVars, pcAsk, relevantInfo, askVars, out, chatLog,
                   embedLog, lookups, calls, rejections, faults, crashed>>

\* The user typed a line; askQuestion calls getCollection.
ChromaQuestionAnswered ==
    /\ pcAsk = "question"
    /\ \E line \in Questions :
          /\ stdinLine' = line
          /\ question' = line
    /\ reads' = reads + 1
    /\ calls' = calls + 1
    /\ pcAsk' = "getCollection"
    /\ UNCHANGED <<envVars, store, pgVars, pcPrep, relevantInfo, out, chatLog,
                   embedLog, lookups, rejections, faults, crashed>>

\* getCollection returned in askQuestion; collection.query is called, and embeds
\* the question.
AskGotCollection ==
    /\ pcAsk = "getCollection"
    /\ store.exists
    /\ embedLog' = Append(embedLog, EmbeddingInput(question))
    /\ calls' = calls + 1
    /\ pcAsk' = "query"
    /\ UNCHANGED <<envVars, store, pgVars, pcPrep, relevantInfo, askVars, out,
                   chatLog, lookups, rejections, faults, crashed>>

\* chroma.getCollection of a collection that does not exist is refused.
GetCollectionRejected ==
    /\ \E c \in {"prep", "ask"} :
          /\ (IF c = "prep" THEN pcPrep ELSE pcAsk) = "getCollection"
          /\ Reject(c)
    /\ ~store.exists
    /\ UNCHANGED <<envVars, store, pgVars, relevantInfo, askVars, out, chatLog,
                   embedLog, lookups, calls, faults>>

\* collection.query returned: a document sends the chat request, none prints
\* the message.
AskQueried ==
    /\ pcAsk = "query"
    /\ store.exists
    /\ \E v \in Vecs :
          \E rows \in CollectionQuery(store.docs, v) :
             /\ relevantInfo' = FirstContent(rows)
             /\ lookups' = Append(lookups,
                   [stored |-> store.docs,
                    q |-> EmbeddingOf(EmbeddingInput(question), v),
                    rows |-> rows, ret |-> relevantInfo'])
    /\ IF ContextFound(relevantInfo')
       THEN /\ chatLog' = Append(chatLog, ChromaChatRequest(relevantInfo', question))
            /\ calls' = calls + 1
            /\ pcAsk' = "chat"
            /\ UNCHANGED out
       ELSE /\ out' = out \o ChromaNotFound
            /\ pcAsk' = "done"
            /\ UNCHANGED <<chatLog, calls>>
    /\ UNCHANGED <<envVars, store, pgVars, pcPrep, askVars, embedLog,
                   rejections, faults, crashed>>

\* The chat completion returned: the answer is printed.
AskChatReturned ==
    /\ pcAsk = "chat"
    /\ out' = Append(out, Answer)
    /\ pcAsk' = "done"
    /\ UNCHANGED <<envVars, store, pgVars, pcPrep, relevantInfo, askVars,
                   chatLog, embedLog, lookups, calls, rejections, faults,
                   crashed>>

\* An awaited call of either chain failed (network, credentials, rate limit).
ChromaRejected ==
    /\ \E c \in {"prep", "ask"} :
          /\ (IF c = "prep" THEN pcPrep ELSE pcAsk) \in ChromaExternal
          /\ Reject(c)
    /\ faults' = TRUE
    /\ UNCHANGED <<envVars, store, pgVars, relevantInfo, askVars, out, chatLog,
                   embedLog, lookups, calls>>

\* ------------------------------------------------------ specification

\* The continuations of the scripts when the awaited call succeeds.
Step ==
    \/ PgConnected
    \/ PgTypesRegistered
    \/ SetupTableExtension
    \/ SetupTableDropped
    \/ SetupTableCreated
    \/ EmbedAndInsertEmbedded
    \/ EmbedAndInsertInserted
    \/ PgQuestionAnswered
    \/ PgQuestionEmbedded
    \/ PgSelected
    \/ PgChatReturned
    \/ PgEnded
    \/ CreateCollectionReturned
    \/ PopulateGotCollection
    \/ PopulateAdded
    \/ ChromaQuestionAnswered
    \/ AskGotCollection
    \/ AskQueried
    \/ AskChatReturned

\* The refusals the storage state decides.
Refused ==
    \/ CreateCollectionRejected
    \/ GetCollectionRejected

Next ==
    \/ Step
    \/ Refused
    \/ PgRejected
    \/ ChromaRejected
    \/ ConcurrentSetupTable
    \/ Restart

Spec == Init /\ [][Next]_vars

\* Every call returns and the user types a line: a chain that can go on does.
LiveSpec == Spec /\ WF_vars(Step \/ Refused)

\* ------------------------------------------------------------ claims

Range(f) == {f[i] : i \in DOMAIN f}
Contents(docs) == [i \in DOMAIN docs |-> docs[i].content]

\* The nearest-neighbour lookup has been sent.
LookupIssued ==
    IF variant = "pg" THEN pcMain \in {"select", "chat", "end", "done"}
    ELSE pcAsk \in {"query", "chat", "done"}

\* Initialisation and the three insertions have returned.
PopulateDone ==
    IF variant = "pg"
    THEN pcMain \in {"question", "embedQuestion", "select", "chat", "end", "done"}
    ELSE pcPrep = "done"

\* The initialisation and population steps have run to their end, or were
\* stopped by a refusal of their own call.
PrepEnded ==
    IF variant = "pg" THEN PopulateDone ELSE pcPrep \in {"done", "rejected"}

\* Storage holds the three example documents, each once.
StoreIsCorpus == store.exists /\ Contents(store.docs) = Corpus

\* C1: when the nearest-document lookup yields no document, the fixed
\* not-found message is what the run prints and no chat-completion request is
\* sent in that run.
C1_NotFoundSkipsChat ==
    \A i \in DOMAIN lookups :
        lookups[i].rows = <<>> =>
            /\ out = IF variant = "pg" THEN <<"No relevant document found.">>
                     ELSE <<"No relevant information found.">>
            /\ chatLog = <<>>

\* The relational variant finished a run whose lookup returned zero rows.
C1_Witness ==
    /\ variant = "pg"
    /\ pcMain = "done"
    /\ lookups # <<>>
    /\ lookups[1].rows = <<>>

\* The calls C2 lists: storage reset/create, document insert/add, query
\* embedding, nearest-neighbour lookup, chat completion.
Listed ==
    {"createExtension", "dropTable", "createTable", "embed", "insert",
     "embedQuestion", "select", "chat", "createCollection", "add", "query"}

\* C2: at most one of the listed external calls is in flight at any time (each
\* has returned before the next is sent).
C2_Sequential == Cardinality({c \in InFlight : c[2] \in Listed}) <= 1

\* C3: when the initialisation and population steps are run again on storage
\* left by earlier runs, storage ends up holding exactly the three example
\* documents, each once (no call failing for an outside reason, no other
\* instance at work).
C3_RerunLeavesCorpus ==
    (run >= 2 /\ PrepEnded /\ ~faults /\ ~foreign) => StoreIsCorpus

\* C4: the lookup is sent only after initialisation and all three insertions
\* have returned, so it runs against the complete corpus.
C4_LookupAfterPopulate ==
    /\ LookupIssued => PopulateDone
    /\ \A i \in DOMAIN lookups :
          ~foreign => Contents(lookups[i].stored) = Corpus

\* C5: every chat-completion request has temperature zero, carries the document
\* the run's lookup returned and the question exactly as typed.
C5_ChatRequest ==
    \A i \in DOMAIN chatLog :
        /\ chatLog[i].temperature = 0
        /\ Len(lookups) = 1
        /\ lookups[1].rows # <<>>
        /\ chatLog[i].messages[1].content[2] = lookups[1].rows[1].content
        /\ stdinLine \in Questions
        /\ chatLog[i].messages[2].content = stdinLine

\* A chat request was sent by the relational variant.
C5_Witness == variant = "pg" /\ chatLog # <<>> /\ pcMain = "done"

\* C6: the lookup returns one document, a stored one at minimum distance from
\* the question's embedding; it returns none exactly when storage is empty;
\* on the three-document corpus a question nearest to the club passage gets
\* the club passage.
C6_Nearest ==
    \A i \in DOMAIN lookups :
        LET l == lookups[i]
            d(k) == Dist(l.stored[k].embedding.vec, l.q.vec)
        IN  /\ (l.ret = Null) <=> (l.stored = <<>>)
            /\ Len(l.rows) <= 1
            /\ l.stored # <<>> =>
                  /\ Len(l.rows) = 1
                  /\ l.ret = l.rows[1].content
                  /\ \E k \in DOMAIN l.stored :
                        /\ l.stored[k] = l.rows[1]
                        /\ \A j \in DOMAIN l.stored : d(k) <= d(j)
            /\ (Contents(l.stored) = Corpus /\ d(2) < d(1) /\ d(2) < d(3))
                  => l.ret = clubInfo

\* A lookup on the full corpus with the club passage strictly nearest.
C6_Witness ==
    /\ variant = "pg"
    /\ lookups # <<>>
    /\ Contents(lookups[1].stored) = Corpus
    /\ Dist(lookups[1].stored[2].embedding.vec, lookups[1].q.vec)
          < Dist(lookups[1].stored[1].embedding.vec, lookups[1].q.vec)
    /\ Dist(lookups[1].stored[2].embedding.vec, lookups[1].q.vec)
          < Dist(lookups[1].stored[3].embedding.vec, lookups[1].q.vec)
    /\ lookups[1].ret = clubInfo

\* C7: every embedding request carries its text unmodified: a stored document's
\* embedding is that of the stored text, and the question's embedding is that
\* of the line typed.
C7_LiteralEmbedding ==
    /\ \A i \in DOMAIN store.docs :
          store.docs[i].embedding.input = store.docs[i].content
    /\ \A i \in DOMAIN embedLog :
          embedLog[i] \in Range(Corpus) \/ embedLog[i] = stdinLine
    /\ \A i \in DOMAIN lookups : lookups[i].q.input = stdinLine

\* The padded line was typed, embedded and looked up against three documents.
C7_Witness ==
    /\ stdinLine = "  When does the chess club meet?  "
    /\ lookups # <<>>
    /\ Len(store.docs) = 3
    /\ Len(embedLog) = 4

\* C8: once an external call has failed the process is dead: no further call
\* is issued and nothing more is printed; nothing but a failed call kills it
\* (an empty lookup does not).
C8_CrashOnFirstFailure ==
    /\ [][(rejections > 0 /\ run' = run) =>
            (calls' = calls /\ out' = out /\ rejections' = rejections)]_vars
    /\ [](rejections > 0 => (crashed /\ InFlight = {}))
    /\ [](crashed => rejections > 0)

\* A failure in one chain of the collection variant while the other was under
\* way.
C8_Witness ==
    /\ variant = "chroma"
    /\ rejections = 1
    /\ pcPrep = "rejected"
    /\ pcAsk = "dead"
    /\ reads = 1

\* C9: in the relational variant the connection is opened once, before any
\* query; a run without failure closes it once, after its one line of output;
\* no query is sent on a connection that is not open.
C9_Connection ==
    variant = "pg" =>
        /\ opens = 1
        /\ ~badQuery
        /\ closes <= 1
        /\ closes = 1 => (conn = "ended" /\ Len(out) = 1)
        /\ (RunOver /\ rejections = 0) => (pcMain = "done" /\ closes = 1)

\* The not-found path of the relational variant ran to its end.
C9_Witness ==
    /\ variant = "pg"
    /\ pcMain = "done"
    /\ out = <<"No relevant document found.">>
    /\ closes = 1

====
